---- MODULE Spec2Model ----
(***************************************************************************)
(* Index-level model of qcircuit::QCircuit (include/qcircuit.hpp): the     *)
(* cursor, the link slots a, the site indices s, the site tensors M and    *)
(* the contracted tensor Psi of a tree tensor-product state, together with *)
(* the free function overlap.                                              *)
(*                                                                         *)
(* An itensor::Index is modelled by its identity and prime level, an       *)
(* itensor::ITensor by the set of its indices (ITensor v3 refuses a tensor *)
(* with a repeated index, so the index collection is a set).  An assert    *)
(* that fails aborts the program: halted becomes TRUE and nothing runs     *)
(* afterwards.                                                             *)
(***************************************************************************)
EXTENDS Integers, Sequences, FiniteSets, TLC

VARIABLES topology, circ, nsvd, halted, last, ov, inContract

vars == <<topology, circ, nsvd, halted, last, ov, inContract>>

(***************************************************************************)
(* Bounds of the model.                                                    *)
(***************************************************************************)
\* number of SVDs (each creates two fresh indices) a run may perform
MaxSvd == 3
\* number of primeAll calls a circuit object may receive
MaxPrime == 1

\* the circuit objects of a run: 1 is constructed with fresh site indices,
\* 2 is a replica constructed with the site indices of 1
Circuits == {1, 2}

\* the circuit the run drives with shift_to, apply, decomposePsi, normalize
\* and primeAll; the replica is constructed and handed to overlap
Driven == {1}

(***************************************************************************)
(* CircuitTopology (circuit_topology.hpp): a topology is the sequence of   *)
(* its links, link e (0-based) being topology[e + 1], joining two sites.   *)
(***************************************************************************)
Pair2 == << <<0, 1>> >>
Chain3 == << <<0, 1>>, <<1, 2>> >>
Chain4 == << <<0, 1>>, <<1, 2>>, <<2, 3>> >>
YTree4 == << <<0, 1>>, <<0, 2>>, <<0, 3>> >>
Fork4 == << <<1, 2>>, <<0, 1>>, <<1, 3>> >>
Gap3 == << <<0, 2>>, <<2, 1>> >>
Gap4 == << <<0, 2>>, <<2, 3>>, <<3, 1>> >>
Star5 == << <<0, 1>>, <<0, 2>>, <<0, 3>>, <<0, 4>> >>
Skip4 == << <<0, 1>>, <<1, 3>>, <<3, 2>> >>

Topologies == {Pair2, Chain3, Chain4, YTree4, Fork4, Gap3, Gap4, Star5, Skip4}

numberOfLinks(t) == Len(t)

Sites(t) == UNION {{t[e][1], t[e][2]} : e \in 1..Len(t)}

\* numberOfBits of every topology of the model, computed once
BitsTable == [t \in Topologies |-> Cardinality(Sites(t))]

numberOfBits(t) == BitsTable[t]

\* the neighbours of site i, in link order, each {site, link}
neighborList(t, i) ==
    LET all == [e \in 1..Len(t) |->
                  IF t[e][1] = i THEN [site |-> t[e][2], link |-> e - 1]
                  ELSE IF t[e][2] = i THEN [site |-> t[e][1], link |-> e - 1]
                  ELSE [site |-> -1, link |-> e - 1]]
    IN  SelectSeq(all, LAMBDA x : x.site # -1)

\* the neighbour lists of every topology of the model, computed once
NeighborTable ==
    [t \in Topologies |-> [i \in 0..numberOfBits(t) |-> neighborList(t, i)]]

neighborsOf(t, i) == NeighborTable[t][i]

Range(f) == {f[x] : x \in DOMAIN f}

NeighborSites(t, i) == {x.site : x \in Range(neighborsOf(t, i))}

Adjacent(t, i, j) == j \in NeighborSites(t, i)

(***************************************************************************)
(* Tensor primitives (itensor), on index sets.                             *)
(***************************************************************************)
\* Index(dim, tags): a fresh identity; c is the circuit whose constructor
\* made it (0 for an index made by svd), n its number there
NewIndex(tag, c, n) == [tag |-> tag, c |-> c, n |-> n, plev |-> 0]

\* prime(Index)
prime(I) == [I EXCEPT !.plev = @ + 1]

\* prime(ITensor): every index one level up
primeTensor(T) == {prime(I) : I \in T}

\* prime(ITensor, Index, Index): only the named indices one level up
primeInds(T, Is) == {IF I \in Is THEN prime(I) ELSE I : I \in T}

\* ITensor operator*: the indices the factors share are summed over
Contract(A, B) == (A \ B) \cup (B \ A)

\* svd(T, U, S, V): the indices of T that the template holds go to that
\* side (the U template when U is not a default tensor, else the V
\* template); U and V each get a fresh index shared with S
svd(T, U, V, k) ==
    LET ul == NewIndex("Link,U", 0, k)
        vl == NewIndex("Link,V", 0, k)
        Uinds == IF U # {} THEN T \cap U ELSE T \ V
        Vinds == T \ Uinds
    IN  [U |-> Uinds \cup {ul}, S |-> {ul, vl}, V |-> Vinds \cup {vl}]

\* commonIndex(A, B)
commonIndex(A, B) == CHOOSE I \in A \cap B : TRUE

(***************************************************************************)
(* class QCircuit.  A circuit object is the record of its fields; built is *)
(* FALSE until its constructor has returned.                               *)
(***************************************************************************)
NoCircuit ==
    [built |-> FALSE, a |-> <<>>, s |-> <<>>, M |-> <<>>, Psi |-> {},
     cursor |-> [first |-> 0, second |-> 0]]

SiteIds(t) == 0..(numberOfBits(t) - 1)

LinkIds(t) == 0..(numberOfLinks(t) - 1)

\* the switch over neighbors.size() in the constructor: default is assert(false)
ConstructorAsserts(t) ==
    \A i \in SiteIds(t) : Len(neighborsOf(t, i)) \in 1..3

\* the constructor with lines 89-90 writing the cursor the other way round
QCircuitCursorSwapped(t, k, physical_indices) ==
    LET a == [e \in LinkIds(t) |-> NewIndex("LinkInd", k, e)]
        s == IF DOMAIN physical_indices = {}
             THEN [i \in SiteIds(t) |-> NewIndex("SiteInd", k, i)]
             ELSE physical_indices
        M == [i \in SiteIds(t) |->
                {s[i]} \cup {a[x.link] : x \in Range(neighborsOf(t, i))}]
    IN  [built |-> TRUE, a |-> a, s |-> s, M |-> M,
         Psi |-> Contract(M[0], M[1]),
         cursor |-> [first |-> 1, second |-> 0]]

\* QCircuit::QCircuit: cursor (0, 1), Psi = M[0] * M[1]
QCircuit(t, k, physical_indices) ==
    LET a == [e \in LinkIds(t) |-> NewIndex("LinkInd", k, e)]
        s == IF DOMAIN physical_indices = {}
             THEN [i \in SiteIds(t) |-> NewIndex("SiteInd", k, i)]
             ELSE physical_indices
        M == [i \in SiteIds(t) |->
                {s[i]} \cup {a[x.link] : x \in Range(neighborsOf(t, i))}]
    IN  [built |-> TRUE, a |-> a, s |-> s, M |-> M,
         Psi |-> Contract(M[0], M[1]),
         cursor |-> [first |-> 0, second |-> 1]]

\* the neighbour list of site i without the entries that lead to site j
\* (std::remove_if and the copy into newlist)
newlistOf(t, i, j) == SelectSeq(neighborsOf(t, i), LAMBDA x : x.site # j)

\* the template tensor ITensor(s[i], a[newlist[0].link], ...)
Template(c, newlist, i) ==
    {c.s[i]} \cup {c.a[newlist[j].link] : j \in 1..Len(newlist)}

\* the link from site i to its neighbour j (the loops that set link_ind;
\* link_ind is initialised to 0 in shift_to and stays 0 when no entry matches)
linkIndOf(t, i, j) ==
    LET hits == {x \in Range(neighborsOf(t, i)) : x.site = j}
    IN  IF hits = {} THEN 0 ELSE (CHOOSE x \in hits : TRUE).link

\* decomposePsi storing V alone in M[cursor.second], S dropped
decomposePsiDropsS(c, t, link_ind, k) ==
    LET first == c.cursor.first
        second == c.cursor.second
        newlist == newlistOf(t, first, second)
        r == svd(c.Psi, Template(c, newlist, first), {}, k)
    IN  [c EXCEPT !.a[link_ind] = commonIndex(r.U, r.S),
                  !.M[first] = r.U,
                  !.M[second] = r.V]

\* QCircuit::decomposePsi from the svd on, link_ind being what line 112 read
decomposePsi(c, t, link_ind, k) ==
    LET first == c.cursor.first
        second == c.cursor.second
        newlist == newlistOf(t, first, second)
        r == svd(c.Psi, Template(c, newlist, first), {}, k)
    IN  [c EXCEPT !.a[link_ind] = commonIndex(r.U, r.S),
                  !.M[first] = r.U,
                  !.M[second] = Contract(r.S, r.V)]

\* the outcomes of a call of decomposePsi: [halt, ub, c].  When cursor.second
\* is not in the neighbour list of cursor.first, find_if returns list.end()
\* and line 112 dereferences it (undefined behaviour, ub): the read crashes,
\* or yields some link number; a link number outside a crashes at line 135.
\* With three entries left in newlist the switch reaches assert(false).
decomposePsiOutcomes(c, t, k) ==
    LET first == c.cursor.first
        second == c.cursor.second
    IN  IF Adjacent(t, first, second)
        THEN {[halt |-> FALSE, ub |-> FALSE,
               c |-> decomposePsi(c, t, linkIndOf(t, first, second), k)]}
        ELSE {[halt |-> TRUE, ub |-> TRUE, c |-> c]} \cup
             {[halt |-> FALSE, ub |-> TRUE, c |-> decomposePsi(c, t, g, k)] :
                g \in {e \in LinkIds(t) : Len(newlistOf(t, first, second)) <= 2}}

\* flag of shift_to: 0 not found, 1 connected with cursor.first,
\* 2 connected with cursor.second (the second loop overwrites the first)
shiftFlag(c, t, ind) ==
    IF ind \in NeighborSites(t, c.cursor.second) THEN 2
    ELSE IF ind \in NeighborSites(t, c.cursor.first) THEN 1
    ELSE 0

\* shiftAsserts without the assert of line 144 (ind != cursor.second)
shiftAssertsNoSecondCheck(c, t, ind) ==
    /\ ind # c.cursor.first
    /\ shiftFlag(c, t, ind) # 0
    /\ shiftFlag(c, t, ind) = 1 =>
         Len(newlistOf(t, c.cursor.second, c.cursor.first)) <= 2
    /\ shiftFlag(c, t, ind) = 2 =>
         Len(newlistOf(t, c.cursor.first, c.cursor.second)) <= 2

\* the asserts of shift_to hold: lines 143, 144, 249 and the default cases
\* of the switches at 194 and 235
shiftAsserts(c, t, ind) ==
    /\ ind # c.cursor.first
    /\ ind # c.cursor.second
    /\ shiftFlag(c, t, ind) # 0
    /\ shiftFlag(c, t, ind) = 1 =>
         Len(newlistOf(t, c.cursor.second, c.cursor.first)) <= 2
    /\ shiftFlag(c, t, ind) = 2 =>
         Len(newlistOf(t, c.cursor.first, c.cursor.second)) <= 2

\* the documented precondition of shift_to: ind is not under the cursor and
\* is a neighbour of exactly one of cursor.first, cursor.second
shiftPrecondition(c, t, ind) ==
    /\ ind \notin {c.cursor.first, c.cursor.second}
    /\ (ind \in NeighborSites(t, c.cursor.first))
         # (ind \in NeighborSites(t, c.cursor.second))

\* shiftFirst without line 205 (cursor.second = cursor.first)
shiftFirstKeepsSecond(c, t, ind, k) ==
    LET first == c.cursor.first
        second == c.cursor.second
        link_ind == linkIndOf(t, second, first)
        newlist == newlistOf(t, second, first)
        r == svd(c.Psi, {}, Template(c, newlist, second), k)
        c1 == [c EXCEPT !.a[link_ind] = commonIndex(r.S, r.V),
                        !.M[second] = r.V]
    IN  [c1 EXCEPT !.Psi = Contract(Contract(c1.M[ind], r.U), r.S),
                   !.cursor = [first |-> ind, second |-> second]]

\* shift_to, flag == 1: ind is a neighbour of cursor.first
shiftFirst(c, t, ind, k) ==
    LET first == c.cursor.first
        second == c.cursor.second
        link_ind == linkIndOf(t, second, first)
        newlist == newlistOf(t, second, first)
        r == svd(c.Psi, {}, Template(c, newlist, second), k)
        c1 == [c EXCEPT !.a[link_ind] = commonIndex(r.S, r.V),
                        !.M[second] = r.V]
    IN  [c1 EXCEPT !.Psi = Contract(Contract(c1.M[ind], r.U), r.S),
                   !.cursor = [first |-> ind, second |-> first]]

\* shiftSecond with lines 246-247 writing the pair the other way round
shiftSecondSwapped(c, t, ind, k) ==
    LET first == c.cursor.first
        second == c.cursor.second
        link_ind == linkIndOf(t, first, second)
        newlist == newlistOf(t, first, second)
        r == svd(c.Psi, Template(c, newlist, first), {}, k)
        c1 == [c EXCEPT !.a[link_ind] = commonIndex(r.U, r.S),
                        !.M[first] = r.U]
    IN  [c1 EXCEPT !.Psi = Contract(Contract(r.S, r.V), c1.M[ind]),
                   !.cursor = [first |-> ind, second |-> second]]

\* shift_to, flag == 2: ind is a neighbour of cursor.second
shiftSecond(c, t, ind, k) ==
    LET first == c.cursor.first
        second == c.cursor.second
        link_ind == linkIndOf(t, first, second)
        newlist == newlistOf(t, first, second)
        r == svd(c.Psi, Template(c, newlist, first), {}, k)
        c1 == [c EXCEPT !.a[link_ind] = commonIndex(r.U, r.S),
                        !.M[first] = r.U]
    IN  [c1 EXCEPT !.Psi = Contract(Contract(r.S, r.V), c1.M[ind]),
                   !.cursor = [first |-> second, second |-> ind]]

\* QCircuit::shift_to when its asserts hold
shift_to(c, t, ind, k) ==
    IF shiftFlag(c, t, ind) = 1 THEN shiftFirst(c, t, ind, k)
    ELSE shiftSecond(c, t, ind, k)

\* the index set apply's asserts compare the indices of op with
ApplyInds(c) ==
    {c.s[c.cursor.first], c.s[c.cursor.second],
     prime(c.s[c.cursor.first]), prime(c.s[c.cursor.second])}

\* applyAsserts without the assert of line 257 (op.inds().size() == 4)
applyAssertsNoCount(c, op) ==
    \A elem \in op : elem \in ApplyInds(c)

\* the asserts of apply hold: four indices, each one of ApplyInds
applyAsserts(c, op) ==
    /\ Cardinality(op) = 4
    /\ \A elem \in op : elem \in ApplyInds(c)

\* apply contracting op with Psi as it is, its site indices not primed
applyUnprimed(c, op) ==
    [c EXCEPT !.Psi = Contract(op, c.Psi)]

\* QCircuit::apply when its asserts hold
apply(c, op) ==
    [c EXCEPT !.Psi =
        Contract(op, primeInds(c.Psi, {c.s[c.cursor.first], c.s[c.cursor.second]}))]

\* QCircuit::normalize: Psi /= norm(Psi) keeps the indices of Psi
normalize(c) == [c EXCEPT !.Psi = c.Psi]

\* QCircuit::primeAll
primeAll(c) ==
    [c EXCEPT !.s = [i \in DOMAIN c.s |-> prime(c.s[i])],
              !.a = [e \in DOMAIN c.a |-> prime(c.a[e])],
              !.M = [i \in DOMAIN c.M |-> primeTensor(c.M[i])],
              !.Psi = primeTensor(c.Psi)]

(***************************************************************************)
(* Gate library: the index set of a gate tensor.                           *)
(***************************************************************************)
\* Id, X, Y, Z, proj_*, H: ITensor ret(s, prime(s))
OneSiteGate(s1) == {s1, prime(s1)}

\* CNOT, CY, CZ, and products such as X(s1) * Id(s2)
TwoSiteGate(s1, s2) == OneSiteGate(s1) \cup OneSiteGate(s2)

(***************************************************************************)
(* overlap(circuit1, op, circuit2): both circuits are passed by value.     *)
(***************************************************************************)
\* the operator list [Id(s[0]), ..., Id(s[n-1])] over the site indices of c
IdList(c, n) == [i \in 0..(n - 1) |-> OneSiteGate(c.s[i])]

\* the loop of overlap: ret_t = dag(M1[i]) * op[i] * ret_t * M2[i], i = 1..n-1
RECURSIVE overlapLoop(_, _, _, _, _, _)
overlapLoop(M1, op, M2, i, n, ret_t) ==
    IF i >= n THEN ret_t
    ELSE overlapLoop(M1, op, M2, i + 1, n,
            Contract(Contract(Contract(M1[i], op[i]), ret_t), M2[i]))

\* ret_t after the step for site i of overlap: line 417 for i = 0, line 420
\* for i > 0
RECURSIVE overlapAcc(_, _, _, _)
overlapAcc(M1, op, M2, i) ==
    IF i = 0 THEN Contract(Contract(M1[0], op[0]), M2[0])
    ELSE Contract(Contract(Contract(M1[i], op[i]),
                           overlapAcc(M1, op, M2, i - 1)), M2[i])

\* the indices of ret_t when the loop ends (ret_t.cplx() needs none left)
overlapRet(c1, op, c2, n) ==
    overlapLoop(c1.M, op, c2.M, 1, n,
                Contract(Contract(c1.M[0], op[0]), c2.M[0]))

\* the assert of overlap: op.size() == circuit1.size() == circuit2.size()
overlapAsserts(op, t) == Cardinality(DOMAIN op) = numberOfBits(t)

\* the outcomes of overlap on its parameters circuit1 and circuit2:
\* [halt, ub, c1, c2, ret], the parameters as they are when overlap returns
overlapOutcomes(circuit1, op, circuit2, t, k) ==
    UNION {
      IF o1.halt
      THEN {[halt |-> TRUE, ub |-> o1.ub, c1 |-> o1.c, c2 |-> circuit2, ret |-> {}]}
      ELSE { IF o2.halt
             THEN [halt |-> TRUE, ub |-> o1.ub \/ o2.ub,
                   c1 |-> o1.c, c2 |-> o2.c, ret |-> {}]
             ELSE [halt |-> FALSE, ub |-> o1.ub \/ o2.ub,
                   c1 |-> o1.c, c2 |-> primeAll(o2.c),
                   ret |-> overlapRet(o1.c, op, primeAll(o2.c), numberOfBits(t))]
             : o2 \in decomposePsiOutcomes(circuit2, t, k + 1) }
      : o1 \in decomposePsiOutcomes(circuit1, t, k) }

\* overlap with QCircuit& parameters: what it does to them reaches the callers
callerAfterOverlapByReference(cs, k1, k2, c1, c2) ==
    [k \in DOMAIN cs |-> IF k = k2 THEN c2 ELSE IF k = k1 THEN c1 ELSE cs[k]]

\* the callers' circuit objects cs after overlap(cs[k1], op, cs[k2]) has
\* returned with its parameters in the states c1, c2: the parameters are
\* QCircuit values, copies of the arguments, so the arguments are as before
callerAfterOverlap(cs, k1, k2, c1, c2) == cs

NoOverlap == [called |-> FALSE, c1 |-> NoCircuit, c2 |-> NoCircuit, ret |-> {}]

(***************************************************************************)
(* The program: calls on the circuit objects, one action per operation.    *)
(* last is the call the latest step made and ov holds the parameters of    *)
(* overlap at its return.  inContract records that every shift_to so far   *)
(* met its documented precondition and no undefined behaviour was run.     *)
(***************************************************************************)
Call(op, k, k2) == [op |-> op, k |-> k, k2 |-> k2]

Init ==
    /\ topology \in Topologies
    /\ circ = [k \in Circuits |-> NoCircuit]
    /\ nsvd = 0
    /\ halted = FALSE
    /\ last = Call("none", 0, 0)
    /\ ov = NoOverlap
    /\ inContract = TRUE

\* QCircuit c(topology, init_qbits) for circuit 1,
\* QCircuit c(topology, init_qbits, circ[1].site()) for the replica 2
Construct(k) ==
    /\ ~halted
    /\ ~circ[k].built
    /\ k # 1 => circ[1].built
    /\ IF ConstructorAsserts(topology)
       THEN /\ circ' = [circ EXCEPT ![k] =
                          QCircuit(topology, k, IF k = 1 THEN <<>> ELSE circ[1].s)]
            /\ UNCHANGED halted
       ELSE /\ halted' = TRUE
            /\ UNCHANGED circ
    /\ last' = Call("QCircuit", k, 0)
    /\ ov' = NoOverlap
    /\ UNCHANGED <<topology, nsvd, inContract>>

\* circ[k].decomposePsi()
DecomposePsi(k) ==
    /\ ~halted
    /\ circ[k].built
    /\ nsvd < MaxSvd
    /\ \E o \in decomposePsiOutcomes(circ[k], topology, nsvd) :
         /\ halted' = o.halt
         /\ circ' = [circ EXCEPT ![k] = o.c]
         /\ nsvd' = IF o.halt THEN nsvd ELSE nsvd + 1
         /\ inContract' = (inContract /\ ~o.ub)
    /\ last' = Call("decomposePsi", k, 0)
    /\ ov' = NoOverlap
    /\ UNCHANGED topology

\* circ[k].shift_to(ind)
ShiftToInd(k, ind) ==
    /\ ~halted
    /\ circ[k].built
    /\ nsvd < MaxSvd
    /\ IF shiftAsserts(circ[k], topology, ind)
       THEN /\ circ' = [circ EXCEPT ![k] = shift_to(circ[k], topology, ind, nsvd)]
            /\ nsvd' = nsvd + 1
            /\ UNCHANGED halted
       ELSE /\ halted' = TRUE
            /\ UNCHANGED <<circ, nsvd>>
    /\ inContract' = (inContract /\ shiftPrecondition(circ[k], topology, ind))
    /\ last' = Call("shift_to", k, 0)
    /\ ov' = NoOverlap
    /\ UNCHANGED topology

\* the sites handed to shift_to: every site, and one number that is no site
ShiftArgs(t) == 0..numberOfBits(t)

ShiftTo(k) == \E ind \in ShiftArgs(topology) : ShiftToInd(k, ind)

\* the sites that are not under the cursor of c
OffCursor(c, t) == SiteIds(t) \ {c.cursor.first, c.cursor.second}

\* the tensors handed to apply: a gate on the cursor pair, a one-site gate,
\* a gate on cursor.first and another site, the cursor gate with an index
\* dropped, and the cursor gate times a gate on another site
GateArgs(c, t) ==
    {ApplyInds(c), OneSiteGate(c.s[c.cursor.first]),
     ApplyInds(c) \ {prime(c.s[c.cursor.second])}}
    \cup {TwoSiteGate(c.s[c.cursor.first], c.s[j]) : j \in OffCursor(c, t)}
    \cup {ApplyInds(c) \cup OneSiteGate(c.s[j]) : j \in OffCursor(c, t)}

\* circ[k].apply(op)
ApplyOp(k, op) ==
    /\ ~halted
    /\ circ[k].built
    /\ IF applyAsserts(circ[k], op)
       THEN /\ circ' = [circ EXCEPT ![k] = apply(circ[k], op)]
            /\ UNCHANGED halted
       ELSE /\ halted' = TRUE
            /\ UNCHANGED circ
    /\ last' = Call("apply", k, 0)
    /\ ov' = NoOverlap
    /\ UNCHANGED <<topology, nsvd, inContract>>

Apply(k) ==
    /\ circ[k].built
    /\ \E op \in GateArgs(circ[k], topology) : ApplyOp(k, op)

\* circ[k].normalize()
Normalize(k) ==
    /\ ~halted
    /\ circ[k].built
    /\ circ' = [circ EXCEPT ![k] = normalize(circ[k])]
    /\ last' = Call("normalize", k, 0)
    /\ ov' = NoOverlap
    /\ UNCHANGED <<topology, nsvd, halted, inContract>>

\* circ[k].primeAll()
PrimeAll(k) ==
    /\ ~halted
    /\ circ[k].built
    /\ circ[k].s[0].plev < MaxPrime
    /\ circ' = [circ EXCEPT ![k] = primeAll(circ[k])]
    /\ last' = Call("primeAll", k, 0)
    /\ ov' = NoOverlap
    /\ UNCHANGED <<topology, nsvd, halted, inContract>>

\* overlap(circ[k1], op, circ[k2]) with op a list of n identity operators
OverlapN(k1, k2, n) ==
    /\ ~halted
    /\ circ[k1].built
    /\ circ[k2].built
    /\ nsvd + 2 <= MaxSvd
    /\ LET op == IdList(circ[k1], n)
       IN  IF overlapAsserts(op, topology)
           THEN \E o \in overlapOutcomes(circ[k1], op, circ[k2], topology, nsvd) :
                  /\ halted' = o.halt
                  /\ ov' = [called |-> TRUE, c1 |-> o.c1, c2 |-> o.c2,
                            ret |-> o.ret]
                  /\ circ' = callerAfterOverlap(circ, k1, k2, o.c1, o.c2)
                  /\ nsvd' = nsvd + 2
                  /\ inContract' = (inContract /\ ~o.ub)
           ELSE /\ halted' = TRUE
                /\ ov' = NoOverlap
                /\ UNCHANGED <<circ, nsvd, inContract>>
    /\ last' = Call("overlap", k1, k2)
    /\ UNCHANGED topology

Overlap(k1, k2) ==
    \E n \in {numberOfBits(topology) - 1, numberOfBits(topology)} :
      OverlapN(k1, k2, n)

Next ==
    \/ \E k \in Circuits : Construct(k)
    \/ \E k \in Driven : DecomposePsi(k)
    \/ \E k \in Driven : ShiftTo(k)
    \/ \E k \in Driven : Apply(k)
    \/ \E k \in Driven : Normalize(k)
    \/ \E k \in Driven : PrimeAll(k)
    \/ \E k1, k2 \in Circuits : Overlap(k1, k2)

Spec == Init /\ [][Next]_vars

(***************************************************************************)
(* Shared vocabulary of the properties.                                    *)
(***************************************************************************)
Endpoints(t, e) == {t[e + 1][1], t[e + 1][2]}

CursorSites(c) == {c.cursor.first, c.cursor.second}

CursorIsEdge(c, t) ==
    /\ c.cursor.first # c.cursor.second
    /\ Adjacent(t, c.cursor.first, c.cursor.second)

\* the links of t that join the two cursor sites of c
CursorLinks(c, t) == {e \in LinkIds(t) : Endpoints(t, e) = CursorSites(c)}

\* the links of t incident on site i
LinksAt(t, i) == {e \in LinkIds(t) : i \in Endpoints(t, e)}

\* every index that occurs anywhere in circuit c
IndicesOf(c) ==
    Range(c.a) \cup Range(c.s) \cup c.Psi \cup UNION {c.M[i] : i \in DOMAIN c.M}

Built == {k \in Circuits : circ[k].built}

(***************************************************************************)
(* C1: on a topology in which sites 0 and 1 are adjacent, the cursor of    *)
(* every constructed circuit is, in every reachable state, an ordered pair *)
(* of two different sites joined by a link of the topology.                *)
(***************************************************************************)
C1_CursorAdjacent ==
    Adjacent(topology, 0, 1) =>
      \A k \in Built : CursorIsEdge(circ[k], topology)

\* a shift has moved the cursor of a circuit constructed over the link 0-1
C1_Witness ==
    /\ Adjacent(topology, 0, 1)
    /\ ~halted
    /\ last.op = "shift_to"
    /\ circ[1].cursor.first = 2
    /\ circ[1].cursor.second = 0

(***************************************************************************)
(* C2: shift_to(ind) from a cursor (f, s) laid across a link, with ind not *)
(* under the cursor: when ind is a neighbour of f and not of s the call    *)
(* returns with cursor (ind, f); when ind is a neighbour of s and not of f *)
(* it returns with cursor (s, ind).  On the chain 0-1-2-3, shift_to(2)     *)
(* from (0,1) gives (1,2) and shift_to(3) from (1,2) gives (2,3).          *)
(***************************************************************************)
C2_ShiftStep(k, ind) ==
    LET c == circ[k]
        f == c.cursor.first
        s == c.cursor.second
        nf == ind \in NeighborSites(topology, f)
        ns == ind \in NeighborSites(topology, s)
    IN  /\ (CursorIsEdge(c, topology) /\ ind \notin {f, s} /\ nf /\ ~ns) =>
              /\ ~halted'
              /\ circ'[k].cursor = [first |-> ind, second |-> f]
        /\ (CursorIsEdge(c, topology) /\ ind \notin {f, s} /\ ns /\ ~nf) =>
              /\ ~halted'
              /\ circ'[k].cursor = [first |-> s, second |-> ind]
        /\ (topology = Chain4 /\ f = 0 /\ s = 1 /\ ind = 2) =>
              circ'[k].cursor = [first |-> 1, second |-> 2]
        /\ (topology = Chain4 /\ f = 1 /\ s = 2 /\ ind = 3) =>
              circ'[k].cursor = [first |-> 2, second |-> 3]

C2_ShiftCursorRule ==
    [][last'.op = "shift_to" =>
         \A ind \in ShiftArgs(topology) :
           ShiftToInd(last'.k, ind) => C2_ShiftStep(last'.k, ind)]_vars

\* the chain walk of the scenario has been made
C2_Witness ==
    /\ topology = Chain4
    /\ ~halted
    /\ last.op = "shift_to"
    /\ circ[1].cursor = [first |-> 2, second |-> 3]

(***************************************************************************)
(* C3: in every state reached from construction on a tree topology by      *)
(* in-contract shift_to, apply, decomposePsi and primeAll calls, every     *)
(* site i off the cursor has M[i] = {s[i]} + {a[e] : e incident on i}, of  *)
(* rank 1 + deg(i); the identity a[e] of a link with no endpoint under the *)
(* cursor is carried by exactly the site tensors of its two endpoints, and *)
(* that of a link with one endpoint under the cursor by the M of its other *)
(* endpoint and by Psi.                                                    *)
(***************************************************************************)
FactoredSiteInv(c, t) ==
    /\ \A i \in OffCursor(c, t) :
         /\ c.M[i] = {c.s[i]} \cup {c.a[e] : e \in LinksAt(t, i)}
         /\ Cardinality(c.M[i]) = 1 + Cardinality(LinksAt(t, i))
    /\ \A e \in LinkIds(t) :
         LET under == Endpoints(t, e) \cap CursorSites(c)
         IN  /\ under = {} =>
                  {i \in SiteIds(t) : c.a[e] \in c.M[i]} = Endpoints(t, e)
             /\ Cardinality(under) = 1 =>
                  /\ \A i \in Endpoints(t, e) \ under : c.a[e] \in c.M[i]
                  /\ c.a[e] \in c.Psi

C3_FactoredSiteIndices ==
    inContract => \A k \in Built : FactoredSiteInv(circ[k], topology)

\* the same on the topologies that meet the constructor's precondition
C3_OnAdjacentStart ==
    Adjacent(topology, 0, 1) =>
      \A k \in Built : FactoredSiteInv(circ[k], topology)

(***************************************************************************)
(* C4: in every state reached from construction on a tree topology by      *)
(* in-contract shift_to, apply, normalize and primeAll calls, the indices  *)
(* of Psi are s[cursor.first], s[cursor.second] and the identities a[e] of *)
(* the links incident on a cursor site other than the cursor link, whose   *)
(* own identity is not an index of Psi.                                    *)
(***************************************************************************)
PsiInv(c, t) ==
    /\ c.Psi = {c.s[c.cursor.first], c.s[c.cursor.second]} \cup
               {c.a[e] : e \in (LinksAt(t, c.cursor.first) \cup
                                 LinksAt(t, c.cursor.second)) \ CursorLinks(c, t)}
    /\ \A e \in CursorLinks(c, t) : c.a[e] \notin c.Psi

C4_PsiIndexSet ==
    inContract => \A k \in Built : PsiInv(circ[k], topology)

\* the same on the topologies that meet the constructor's precondition
C4_OnAdjacentStart ==
    Adjacent(topology, 0, 1) => \A k \in Built : PsiInv(circ[k], topology)

(***************************************************************************)
(* C5: a call shift_to(ind) with ind equal to cursor.first or              *)
(* cursor.second, or with ind adjacent to neither of them, halts, and the  *)
(* circuit (cursor, Psi, M, a) is then exactly as it was before the call.  *)
(***************************************************************************)
C5_BadShiftArg(c, t, ind) ==
    \/ ind = c.cursor.first
    \/ ind = c.cursor.second
    \/ /\ ind \notin NeighborSites(t, c.cursor.first)
       /\ ind \notin NeighborSites(t, c.cursor.second)

C5_ShiftHaltsUntouched ==
    [][last'.op = "shift_to" =>
         \A ind \in ShiftArgs(topology) :
           (/\ C5_BadShiftArg(circ[last'.k], topology, ind)
            /\ ShiftToInd(last'.k, ind)) =>
              /\ halted'
              /\ circ' = circ
              /\ nsvd' = nsvd]_vars

\* a shift_to call has halted the program
C5_Witness ==
    /\ halted
    /\ last.op = "shift_to"
    /\ circ[1].built

(***************************************************************************)
(* C6: apply(op) halts, with Psi and the rest of the circuit unchanged,    *)
(* for every op whose index set is not exactly {s[first], s[second],       *)
(* prime(s[first]), prime(s[second])}; a call that returns had that set.   *)
(***************************************************************************)
C6_ApplyRejects ==
    [][last'.op = "apply" =>
         \A op \in GateArgs(circ[last'.k], topology) :
           ApplyOp(last'.k, op) =>
              /\ op # ApplyInds(circ[last'.k]) => (halted' /\ circ' = circ)
              /\ ~halted' => op = ApplyInds(circ[last'.k])]_vars

\* an apply call has halted the program
C6_Witness ==
    /\ halted
    /\ last.op = "apply"
    /\ circ[1].built

(***************************************************************************)
(* C7: apply(op) with op on exactly the four cursor site indices returns   *)
(* with the cursor, every M[i], every link slot a[e] and every site index  *)
(* s[i] as before, and with Psi on the same index set as before.           *)
(***************************************************************************)
C7_ApplyFrame ==
    [][last'.op = "apply" =>
         LET k == last'.k
         IN  ApplyOp(k, ApplyInds(circ[k])) =>
               /\ ~halted'
               /\ circ'[k].cursor = circ[k].cursor
               /\ circ'[k].M = circ[k].M
               /\ circ'[k].a = circ[k].a
               /\ circ'[k].s = circ[k].s
               /\ circ'[k].Psi = circ[k].Psi
               /\ \A j \in Circuits \ {k} : circ'[j] = circ[j]]_vars

\* an apply call has returned, on a circuit whose cursor has been shifted
C7_Witness ==
    /\ ~halted
    /\ last.op = "apply"
    /\ circ[1].built
    /\ circ[1].cursor.first # 0

(***************************************************************************)
(* C8: decomposePsi, called with the cursor across a link, returns with    *)
(* the cursor, Psi, every site index, every M[i] of a site off the cursor  *)
(* and every link slot but the cursor link's as before; the cursor link's  *)
(* slot holds an index that occurred nowhere in the circuit before, and    *)
(* that index is carried by both M[cursor.first] and M[cursor.second].     *)
(***************************************************************************)
C8_DecomposeStep(k) ==
    LET c == circ[k]
        d == circ'[k]
    IN  /\ ~halted'
        /\ d.cursor = c.cursor
        /\ d.s = c.s
        /\ d.Psi = c.Psi
        /\ \A i \in OffCursor(c, topology) : d.M[i] = c.M[i]
        /\ \A e \in LinkIds(topology) \ CursorLinks(c, topology) : d.a[e] = c.a[e]
        /\ \A e \in CursorLinks(c, topology) :
             /\ d.a[e] \notin IndicesOf(c)
             /\ d.a[e] \in d.M[c.cursor.first]
             /\ d.a[e] \in d.M[c.cursor.second]
        /\ \A j \in Circuits \ {k} : circ'[j] = circ[j]

C8_DecomposeFrame ==
    [][(last'.op = "decomposePsi" /\ CursorIsEdge(circ[last'.k], topology)) =>
         C8_DecomposeStep(last'.k)]_vars

\* decomposePsi has returned on a circuit whose cursor sits on a degree-3 site
C8_Witness ==
    /\ ~halted
    /\ last.op = "decomposePsi"
    /\ topology = YTree4
    /\ circ[1].cursor = [first |-> 2, second |-> 0]

(***************************************************************************)
(* C9: overlap(c1, op, c2) returns (or halts) with the callers' circuit    *)
(* objects, c1 and c2 among them, exactly as they were before the call,    *)
(* also when c1 and c2 are the same object.  (A step is a call of overlap  *)
(* exactly when it leaves last.op = "overlap".)                            *)
(***************************************************************************)
C9_OverlapKeepsCallers ==
    [][last'.op = "overlap" => circ' = circ]_vars

\* overlap has returned from a call with the same object as c1 and c2, and
\* its two parameters ended decomposed, the second one primed as well
C9_Witness ==
    /\ ~halted
    /\ last.op = "overlap"
    /\ ov.called
    /\ last.k = last.k2
    /\ ov.c1.M # circ[last.k].M
    /\ ov.c2.s # circ[last.k2].s
    /\ ov.c1 # ov.c2

(***************************************************************************)
(* C10: on a topology in which sites 0 and 1 are not joined by a link, the *)
(* constructor halts and no circuit object comes to exist.                 *)
(***************************************************************************)
C10_ConstructionRejectsNonAdjacent ==
    ~Adjacent(topology, 0, 1) =>
      /\ Built = {}
      /\ last.op = "QCircuit" => halted

(***************************************************************************)
(* C11: every constructed circuit has a site numbering in which each site  *)
(* i > 0 is adjacent to some site j < i, and so at every step i > 0 of the *)
(* loop of overlap the accumulator ret_t shares a link index with M1[i]    *)
(* and a link index with M2[i].                                            *)
(***************************************************************************)
SitesOrdered(t) ==
    \A i \in SiteIds(t) \ {0} : \E j \in 0..(i - 1) : Adjacent(t, i, j)

\* at every step of the loop of the overlap call that has just returned,
\* ret_t shares a link index with each of the two site tensors of the step
OverlapStepsShare ==
    LET n == numberOfBits(topology)
        op == IdList(ov.c1, n)
        acc(i) == overlapAcc(ov.c1.M, op, ov.c2.M, i)
    IN  \A i \in 1..(n - 1) :
          /\ acc(i - 1) \cap ov.c1.M[i] \cap Range(ov.c1.a) # {}
          /\ acc(i - 1) \cap ov.c2.M[i] \cap Range(ov.c2.a) # {}

C11_OverlapOrdering ==
    /\ Built # {} => SitesOrdered(topology)
    /\ (ov.called /\ ~halted) => OverlapStepsShare

\* the same on the topologies whose sites 0 and 1 are joined, with every
\* call so far inside its contract
C11_OnAdjacentStart ==
    (Adjacent(topology, 0, 1) /\ inContract) => C11_OverlapOrdering

(***************************************************************************)
(* C15: on the 4-site tree with site 0 linked to sites 1, 2 and 3,         *)
(* construction returns with M[0] of rank 4, M[1], M[2], M[3] of rank 2    *)
(* and cursor (0,1); shift_to(2) from (0,1) makes the cursor the ordered   *)
(* pair (2,0), and shift_to(3) from there makes it (0,3).                  *)
(***************************************************************************)
YTreeConstructed(c) ==
    /\ c.built
    /\ Cardinality(c.M[0]) = 4
    /\ \A i \in 1..3 : Cardinality(c.M[i]) = 2
    /\ c.cursor = [first |-> 0, second |-> 1]

\* the steps of the scenario, afterShift2 being the cursor shift_to(2) makes
YTreeSteps(afterShift2) ==
    /\ (last'.op = "QCircuit" /\ Construct(1)) =>
          (~halted' /\ YTreeConstructed(circ'[1]))
    /\ (last'.op = "shift_to" /\ circ[1].cursor = [first |-> 0, second |-> 1]
           /\ ShiftToInd(1, 2)) =>
          (~halted' /\ circ'[1].cursor = afterShift2)
    /\ (last'.op = "shift_to" /\ last.op = "shift_to"
           /\ circ[1].cursor = [first |-> 2, second |-> 0]
           /\ ShiftToInd(1, 3)) =>
          (~halted' /\ circ'[1].cursor = [first |-> 0, second |-> 3])

C15_YTreeScenario ==
    [][topology = YTree4 => YTreeSteps([first |-> 2, second |-> 0])]_vars

\* C15 as the scenario words it: shift_to(2) makes the cursor (0,2)
C15_YTreeScenarioAsWorded ==
    [][topology = YTree4 => YTreeSteps([first |-> 0, second |-> 2])]_vars

\* the two shifts of the scenario have been made, right after construction
C15_Witness ==
    /\ topology = YTree4
    /\ ~halted
    /\ last.op = "shift_to"
    /\ nsvd = 2
    /\ circ[1].cursor = [first |-> 0, second |-> 3]

(***************************************************************************)
(* Element values.  The tensors of the library hold complex doubles; the   *)
(* model computes with exact complex rationals <<re, im, den>>, den > 0,   *)
(* in lowest terms.                                                        *)
(***************************************************************************)
Abs(n) == IF n < 0 THEN -n ELSE n

RECURSIVE Gcd(_, _)
Gcd(m, n) == IF n = 0 THEN m ELSE Gcd(n, m % n)

\* the complex rational (re + im i) / den in lowest terms
Cx(re, im, den) ==
    LET g == Gcd(Gcd(Abs(re), Abs(im)), Abs(den))
        sg == IF den < 0 THEN -1 ELSE 1
    IN  <<sg * (re \div g), sg * (im \div g), Abs(den) \div g>>

CZero == <<0, 0, 1>>
COne == <<1, 0, 1>>
\* the literals 1_i and -1_i
CI == <<0, 1, 1>>
CMinusI == <<0, -1, 1>>

CAdd(x, y) == Cx(x[1] * y[3] + y[1] * x[3], x[2] * y[3] + y[2] * x[3], x[3] * y[3])

CMul(x, y) == Cx(x[1] * y[1] - x[2] * y[2], x[1] * y[2] + x[2] * y[1], x[3] * y[3])

CNeg(x) == <<-x[1], -x[2], x[3]>>

CConj(x) == <<x[1], -x[2], x[3]>>

\* |x|^2
CAbs2(x) == Cx(x[1] * x[1] + x[2] * x[2], 0, x[3] * x[3])

\* 1 / x, for x # 0
CInv(x) == Cx(x[1] * x[3], -(x[2] * x[3]), x[1] * x[1] + x[2] * x[2])

CDiv(x, y) == CMul(x, CInv(y))

\* the largest r in lo..hi with r * r <= n, by bisection (lo * lo <= n)
RECURSIVE Isqrt(_, _, _)
Isqrt(n, lo, hi) ==
    IF lo >= hi THEN lo
    ELSE LET mid == (lo + hi + 1) \div 2
         IN  IF mid <= n \div mid THEN Isqrt(n, mid, hi) ELSE Isqrt(n, lo, mid - 1)

SqrtN(n) == Isqrt(n, 0, n)

IsSquare(n) == SqrtN(n) * SqrtN(n) = n

\* a real q >= 0 whose square root is rational, and that root
HasRoot(q) == q[2] = 0 /\ q[1] >= 0 /\ IsSquare(q[1]) /\ IsSquare(q[3])

Root(q) == <<SqrtN(q[1]), 0, SqrtN(q[3])>>

\* the sum of the values f[x] of a function f with a finite domain
RECURSIVE CSum(_)
CSum(f) ==
    IF DOMAIN f = {} THEN CZero
    ELSE LET x == CHOOSE y \in DOMAIN f : TRUE
         IN  CAdd(f[x], CSum([y \in DOMAIN f \ {x} |-> f[y]]))

(***************************************************************************)
(* ITensor with its elements: [inds, el], inds the index set and el the    *)
(* elements that are not zero, a function from the assignments (index |->  *)
(* value, values counted from 1) at which they stand.                      *)
(***************************************************************************)
ITensor(inds, el) == [inds |-> inds, el |-> el]

\* el without the assignments that hold zero
NonZero(el) == [x \in {y \in DOMAIN el : el[y] # CZero} |-> el[x]]

\* ITensor operator*: the shared indices are summed over
ContractV(A, B) ==
    LET shared == A.inds \cap B.inds
        out == Contract(A.inds, B.inds)
        pairs == {p \in (DOMAIN A.el) \X (DOMAIN B.el) :
                    \A I \in shared : p[1][I] = p[2][I]}
        at(p) == [I \in out |-> IF I \in A.inds THEN p[1][I] ELSE p[2][I]]
        terms == {<<at(p), CMul(A.el[p[1]], B.el[p[2]]), p>> : p \in pairs}
        val == [x \in {tm[1] : tm \in terms} |->
                  CSum([tm \in {u \in terms : u[1] = x} |-> tm[2]])]
    IN  ITensor(out, NonZero(val))

\* ITensor operator+ (both operands on the same indices)
AddV(A, B) ==
    LET get(T, x) == IF x \in DOMAIN T.el THEN T.el[x] ELSE CZero
    IN  ITensor(A.inds,
                NonZero([x \in DOMAIN A.el \cup DOMAIN B.el |->
                           CAdd(get(A, x), get(B, x))]))

\* ITensor times a scalar
ScaleV(A, z) == ITensor(A.inds, NonZero([x \in DOMAIN A.el |-> CMul(A.el[x], z)]))

\* dag without the conjugation
dagUnconjugated(A) == A

\* dag(ITensor): the complex conjugate
dag(A) == ITensor(A.inds, [x \in DOMAIN A.el |-> CConj(A.el[x])])

\* the assignment x with every index I renamed to ren[I]
Rename(x, ren) ==
    [J \in {ren[I] : I \in DOMAIN x} |->
        x[CHOOSE I \in DOMAIN x : ren[I] = J]]

\* prime(ITensor, Index...): the indices of Is one level up, elements kept
primeV(A, Is) ==
    LET ren == [I \in A.inds |-> IF I \in Is THEN prime(I) ELSE I]
    IN  ITensor(primeInds(A.inds, Is),
                [y \in {Rename(x, ren) : x \in DOMAIN A.el} |->
                   A.el[CHOOSE x \in DOMAIN A.el : Rename(x, ren) = y]])

\* norm(ITensor)^2, the sum of |element|^2
Norm2(A) == CSum([x \in DOMAIN A.el |-> CAbs2(A.el[x])])

\* ITensor::cplx(): the element of a tensor without indices
cplx(A) == IF DOMAIN A.el = {} THEN CZero ELSE A.el[CHOOSE x \in DOMAIN A.el : TRUE]

(***************************************************************************)
(* Gate library with its elements.  ret.set(s(v), prime(s)(w), z) puts z   *)
(* at the assignment s = v, prime(s) = w.                                  *)
(***************************************************************************)
At(s1, v, w) == (s1 :> v) @@ (prime(s1) :> w)

Id(s1) == ITensor(OneSiteGate(s1), (At(s1, 1, 1) :> COne) @@ (At(s1, 2, 2) :> COne))

\* X without its second element
XOneWay(s1) == ITensor(OneSiteGate(s1), (At(s1, 1, 2) :> COne))

X(s1) == ITensor(OneSiteGate(s1), (At(s1, 1, 2) :> COne) @@ (At(s1, 2, 1) :> COne))

\* Y with its two elements exchanged
YTransposed(s1) ==
    ITensor(OneSiteGate(s1), (At(s1, 2, 1) :> CMinusI) @@ (At(s1, 1, 2) :> CI))

Y(s1) == ITensor(OneSiteGate(s1), (At(s1, 1, 2) :> CMinusI) @@ (At(s1, 2, 1) :> CI))

\* Z without the sign of its second element
ZUnsigned(s1) ==
    ITensor(OneSiteGate(s1), (At(s1, 1, 1) :> COne) @@ (At(s1, 2, 2) :> COne))

Z(s1) == ITensor(OneSiteGate(s1), (At(s1, 1, 1) :> COne) @@ (At(s1, 2, 2) :> CNeg(COne)))

proj_0(s1) == ITensor(OneSiteGate(s1), (At(s1, 1, 1) :> COne))

proj_1(s1) == ITensor(OneSiteGate(s1), (At(s1, 2, 2) :> COne))

proj_0_to_1(s1) == ITensor(OneSiteGate(s1), (At(s1, 2, 1) :> COne))

proj_1_to_0(s1) == ITensor(OneSiteGate(s1), (At(s1, 1, 2) :> COne))

\* CNOT with Id in place of X
CNOTWithoutFlip(s1, s2) ==
    AddV(ContractV(proj_0(s1), Id(s2)), ContractV(proj_1(s1), Id(s2)))

CNOT(s1, s2) ==
    AddV(ContractV(proj_0(s1), Id(s2)), ContractV(proj_1(s1), X(s2)))

CY(s1, s2) ==
    AddV(ContractV(proj_0(s1), Id(s2)), ContractV(proj_1(s1), Y(s2)))

CZ(s1, s2) ==
    AddV(ContractV(proj_0(s1), Id(s2)), ContractV(proj_1(s1), Z(s2)))

(***************************************************************************)
(* itensor::svd with elements, exact and without truncation.  T is read as *)
(* a matrix, its rows the assignments of the indices that go to U and its  *)
(* columns those of the indices that go to V.  The model computes the      *)
(* factors in exact arithmetic when the matrix has rank one, or pairwise   *)
(* orthogonal columns, or pairwise orthogonal rows, and every norm it      *)
(* divides by is rational; other tensors are outside the model.  The new   *)
(* index has dimension min(rows, columns); S holds the singular values     *)
(* that are not zero, and the columns of U and V that belong to a zero     *)
(* singular value (they multiply zero in every product the program forms)  *)
(* are left out.  The order of the singular values is one the model fixes. *)
(***************************************************************************)
\* the assignment x restricted to the indices Is
Restrict(x, Is) == [I \in Is |-> x[I]]

\* the elements of a set in an order fixed by CHOOSE
RECURSIVE SetToSeq(_)
SetToSeq(D) ==
    IF D = {} THEN <<>>
    ELSE LET x == CHOOSE y \in D : TRUE
         IN  <<x>> \o SetToSeq(D \ {x})

\* T as a matrix: [rows, cols, at], at(r, c) the element at row r, column c
Matrix(T, Uside, Vside) ==
    [rows |-> {Restrict(x, Uside) : x \in DOMAIN T.el},
     cols |-> {Restrict(x, Vside) : x \in DOMAIN T.el},
     el |-> T.el]

MatAt(m, r, c) == IF (r @@ c) \in DOMAIN m.el THEN m.el[r @@ c] ELSE CZero

\* the inner product of columns c1 and c2, and of rows r1 and r2
ColDot(m, c1, c2) ==
    CSum([r \in m.rows |-> CMul(CConj(MatAt(m, r, c1)), MatAt(m, r, c2))])

RowDot(m, r1, r2) ==
    CSum([c \in m.cols |-> CMul(CConj(MatAt(m, r1, c)), MatAt(m, r2, c))])

ColsOrthogonal(m) ==
    /\ \A c1, c2 \in m.cols : c1 # c2 => ColDot(m, c1, c2) = CZero
    /\ \A c \in m.cols : HasRoot(ColDot(m, c, c))

RowsOrthogonal(m) ==
    /\ \A r1, r2 \in m.rows : r1 # r2 => RowDot(m, r1, r2) = CZero
    /\ \A r \in m.rows : HasRoot(RowDot(m, r, r))

\* every 2 x 2 minor through the pivot p of m vanishes
MinorsVanish(m, p) ==
    LET r0 == CHOOSE r \in m.rows : \E c \in m.cols : (r @@ c) = p
        c0 == CHOOSE c \in m.cols : (r0 @@ c) = p
    IN  \A r \in m.rows, c \in m.cols :
            CMul(MatAt(m, r, c), MatAt(m, r0, c0))
              = CMul(MatAt(m, r, c0), MatAt(m, r0, c))

\* rank one, with rational norms of the pivot, its row and its column
RankOne(m) ==
    /\ DOMAIN m.el # {}
    /\ LET p == CHOOSE x \in DOMAIN m.el : TRUE
           r0 == CHOOSE r \in m.rows : \E c \in m.cols : (r @@ c) = p
           c0 == CHOOSE c \in m.cols : (r0 @@ c) = p
       IN  /\ MinorsVanish(m, p)
           /\ HasRoot(ColDot(m, c0, c0))
           /\ HasRoot(RowDot(m, r0, r0))
           /\ HasRoot(CAbs2(MatAt(m, r0, c0)))

\* the model can factor T exactly
svdExact(T, Uside, Vside) ==
    LET m == Matrix(T, Uside, Vside)
    IN  /\ DOMAIN T.el # {}
        /\ HasRoot(Norm2(T))
        /\ ColsOrthogonal(m) \/ RowsOrthogonal(m) \/ RankOne(m)

\* the factors [U, S, V] of T, r the index sets svd gives them (ul the new
\* index of U and S, vl that of S and V)
svdV(T, r, ul, vl) ==
    LET Uside == r.U \ {ul}
        Vside == r.V \ {vl}
        m == Matrix(T, Uside, Vside)
        one(I, j) == (I :> j)
    IN  IF ColsOrthogonal(m)
        THEN LET cs == SetToSeq(m.cols)
                 sv(j) == Root(ColDot(m, cs[j], cs[j]))
             IN  [U |-> ITensor(r.U, NonZero(
                          [x \in {rr @@ one(ul, j) : rr \in m.rows, j \in DOMAIN cs} |->
                             CDiv(MatAt(m, Restrict(x, Uside), cs[x[ul]]), sv(x[ul]))])),
                  S |-> ITensor(r.S,
                          [x \in {one(ul, j) @@ one(vl, j) : j \in DOMAIN cs} |->
                             sv(x[ul])]),
                  V |-> ITensor(r.V,
                          [x \in {cs[j] @@ one(vl, j) : j \in DOMAIN cs} |-> COne])]
        ELSE IF RowsOrthogonal(m)
        THEN LET rs == SetToSeq(m.rows)
                 sv(j) == Root(RowDot(m, rs[j], rs[j]))
             IN  [U |-> ITensor(r.U,
                          [x \in {rs[j] @@ one(ul, j) : j \in DOMAIN rs} |-> COne]),
                  S |-> ITensor(r.S,
                          [x \in {one(ul, j) @@ one(vl, j) : j \in DOMAIN rs} |->
                             sv(x[ul])]),
                  V |-> ITensor(r.V, NonZero(
                          [x \in {cc @@ one(vl, j) : cc \in m.cols, j \in DOMAIN rs} |->
                             CDiv(MatAt(m, rs[x[vl]], Restrict(x, Vside)), sv(x[vl]))]))]
        ELSE LET p == CHOOSE x \in DOMAIN m.el : TRUE
                 r0 == CHOOSE rr \in m.rows : \E c \in m.cols : (rr @@ c) = p
                 c0 == CHOOSE c \in m.cols : (r0 @@ c) = p
                 nu == Root(ColDot(m, c0, c0))
                 nw == Root(RowDot(m, r0, r0))
                 pv == MatAt(m, r0, c0)
                 apv == Root(CAbs2(pv))
             IN  [U |-> ITensor(r.U, NonZero(
                          [x \in {rr @@ one(ul, 1) : rr \in m.rows} |->
                             CDiv(MatAt(m, Restrict(x, Uside), c0), nu)])),
                  S |-> ITensor(r.S,
                          (one(ul, 1) @@ one(vl, 1)) :>
                             CDiv(CMul(nu, nw), apv)),
                  V |-> ITensor(r.V, NonZero(
                          [x \in {cc @@ one(vl, 1) : cc \in m.cols} |->
                             CDiv(CMul(MatAt(m, r0, Restrict(x, Vside)), apv),
                                  CMul(pv, nw))]))]

(***************************************************************************)
(* class QCircuit with the elements of its tensors.  A circuit object is   *)
(* the record of the index-level model with three more fields: val, the    *)
(* elements of every M[i] and of Psi; dim, the dimension of the index in   *)
(* each link slot a[e]; and stale, the sites j whose M[j] has not been     *)
(* rewritten since j came under the cursor or Psi was last assigned.       *)
(***************************************************************************)
\* Mref(i) and Psiref(): the tensor with its elements
Mref(c, i) == ITensor(c.M[i], c.val.M[i])

Psiref(c) == ITensor(c.Psi, c.val.Psi)

\* the dimension of index I of circuit c: Index(2, "SiteInd"), or what the
\* link slot that holds I records
dimOf(c, I) ==
    IF I \in Range(c.s) THEN 2
    ELSE c.dim[CHOOSE e \in DOMAIN c.a : c.a[e] = I]

RECURSIVE dimsOf(_, _)
dimsOf(c, Is) ==
    IF Is = {} THEN 1
    ELSE LET I == CHOOSE J \in Is : TRUE
         IN  dimOf(c, I) * dimsOf(c, Is \ {I})

Min(m, n) == IF m <= n THEN m ELSE n

\* QCircuit::QCircuit with init_qbits: M[i] holds init_qbits[i].first at
\* s[i] = 1 and init_qbits[i].second at s[i] = 2, every link index at 1
QCircuitV(t, k, init_qbits, physical_indices) ==
    LET c == QCircuit(t, k, physical_indices)
        at(i, v) == [I \in c.M[i] |-> IF I = c.s[i] THEN v ELSE 1]
        Mv == [i \in SiteIds(t) |->
                 NonZero((at(i, 1) :> init_qbits[i][1]) @@
                         (at(i, 2) :> init_qbits[i][2]))]
    IN  c @@ [val |-> [M |-> Mv,
                       Psi |-> ContractV(ITensor(c.M[0], Mv[0]),
                                         ITensor(c.M[1], Mv[1])).el],
              dim |-> [e \in LinkIds(t) |-> 1],
              stale |-> {0, 1}]

\* S left as svd returns it
normalizeSSkipped(S) == S

\* S /= norm(S)
normalizeS(S) == ScaleV(S, CInv(Root(Norm2(S))))

\* the index sets svd gives U, S and V in decomposePsi and in the flag == 2
\* branch of shift_to (U template), and in the flag == 1 branch (V template)
svdByU(c, t, k) ==
    svd(c.Psi, Template(c, newlistOf(t, c.cursor.first, c.cursor.second),
                        c.cursor.first), {}, k)

svdByV(c, t, k) ==
    svd(c.Psi, {}, Template(c, newlistOf(t, c.cursor.second, c.cursor.first),
                            c.cursor.second), k)

\* the svd of Psi into the index sets r is one the model computes exactly
svdInModel(c, r) ==
    LET ul == commonIndex(r.U, r.S)
        vl == commonIndex(r.S, r.V)
    IN  svdExact(Psiref(c), r.U \ {ul}, r.V \ {vl})

\* the factors of Psi, S not yet normalized, and the dimension of the new index
svdOfPsi(c, r) ==
    LET ul == commonIndex(r.U, r.S)
        vl == commonIndex(r.S, r.V)
    IN  svdV(Psiref(c), r, ul, vl) @@
        [dim |-> Min(dimsOf(c, r.U \ {ul}), dimsOf(c, r.V \ {vl}))]

\* QCircuit::decomposePsi from the svd on
decomposePsiV(c, t, link_ind, k) ==
    LET first == c.cursor.first
        second == c.cursor.second
        f == svdOfPsi(c, svdByU(c, t, k))
        S == normalizeS(f.S)
    IN  [decomposePsi(c, t, link_ind, k) EXCEPT
            !.val.M[first] = f.U.el,
            !.val.M[second] = ContractV(S, f.V).el,
            !.dim[link_ind] = f.dim,
            !.stale = @ \ {first, second}]

\* shift_to, flag == 1
shiftFirstV(c, t, ind, k) ==
    LET first == c.cursor.first
        second == c.cursor.second
        f == svdOfPsi(c, svdByV(c, t, k))
        S == normalizeS(f.S)
    IN  [shiftFirst(c, t, ind, k) EXCEPT
            !.val.M[second] = f.V.el,
            !.val.Psi = ContractV(ContractV(Mref(c, ind), f.U), S).el,
            !.dim[linkIndOf(t, second, first)] = f.dim,
            !.stale = (@ \ {second}) \cup {ind, first}]

\* shift_to, flag == 2
shiftSecondV(c, t, ind, k) ==
    LET first == c.cursor.first
        second == c.cursor.second
        f == svdOfPsi(c, svdByU(c, t, k))
        S == normalizeS(f.S)
    IN  [shiftSecond(c, t, ind, k) EXCEPT
            !.val.M[first] = f.U.el,
            !.val.Psi = ContractV(ContractV(S, f.V), Mref(c, ind)).el,
            !.dim[linkIndOf(t, first, second)] = f.dim,
            !.stale = (@ \ {first}) \cup {second, ind}]

\* QCircuit::shift_to when its asserts hold
shift_toV(c, t, ind, k) ==
    IF shiftFlag(c, t, ind) = 1 THEN shiftFirstV(c, t, ind, k)
    ELSE shiftSecondV(c, t, ind, k)

\* the svd shift_to(ind) performs is one the model computes exactly
shiftInModel(c, t, ind, k) ==
    IF shiftFlag(c, t, ind) = 1 THEN svdInModel(c, svdByV(c, t, k))
    ELSE svdInModel(c, svdByU(c, t, k))

\* QCircuit::apply when its asserts hold
applyV(c, op) ==
    [apply(c, op.inds) EXCEPT
        !.val.Psi = ContractV(op, primeV(Psiref(c),
                       {c.s[c.cursor.first], c.s[c.cursor.second]})).el,
        !.stale = @ \cup {c.cursor.first, c.cursor.second}]

\* norm(Psi) is rational and not zero
normalizeInModel(c) ==
    DOMAIN c.val.Psi # {} /\ HasRoot(Norm2(Psiref(c)))

\* QCircuit::normalize
normalizeV(c) ==
    [normalize(c) EXCEPT
        !.val.Psi = ScaleV(Psiref(c), CInv(Root(Norm2(Psiref(c))))).el,
        !.stale = @ \cup {c.cursor.first, c.cursor.second}]

\* QCircuit::primeAll
primeAllV(c) ==
    [primeAll(c) EXCEPT
        !.val.M = [i \in DOMAIN c.M |-> primeV(Mref(c, i), c.M[i]).el],
        !.val.Psi = primeV(Psiref(c), c.Psi).el]

(***************************************************************************)
(* overlap with elements.                                                  *)
(***************************************************************************)
\* ret_t after the step for site i: line 417 for i = 0, line 420 for i > 0
RECURSIVE overlapAccV(_, _, _, _)
overlapAccV(c1, op, c2, i) ==
    IF i = 0
    THEN ContractV(ContractV(dag(Mref(c1, 0)), op[0]), Mref(c2, 0))
    ELSE ContractV(ContractV(ContractV(dag(Mref(c1, i)), op[i]),
                             overlapAccV(c1, op, c2, i - 1)), Mref(c2, i))

\* the link under the cursor of c
cursorLink(c, t) == linkIndOf(t, c.cursor.first, c.cursor.second)

\* what overlap leaves: its parameters c1 and c2 as they are when it
\* returns, the indices of ret_t and ret_t.cplx()
overlapRetV(c1, c2, ret_t) ==
    [c1 |-> c1, c2 |-> c2, ret |-> ret_t.inds, z |-> cplx(ret_t)]

\* the loop of overlap over the sites of c1 and c2
overlapLoopV(c1, op, c2, t) ==
    overlapRetV(c1, c2, overlapAccV(c1, op, c2, numberOfBits(t) - 1))

\* overlap without the two decomposePsi calls
overlapVNoDecompose(circuit1, op, circuit2, t, k) ==
    overlapLoopV(circuit1, op, primeAllV(circuit2), t)

\* overlap on its parameters circuit1 and circuit2 (cursors across a link)
overlapV(circuit1, op, circuit2, t, k) ==
    overlapLoopV(decomposePsiV(circuit1, t, cursorLink(circuit1, t), k), op,
                 primeAllV(decomposePsiV(circuit2, t, cursorLink(circuit2, t),
                                         k + 1)), t)

\* the site tensors overlap reads (Mref(i), lines 417 and 420), and the
\* site tensor shift_to(ind) reads (M[ind], lines 203 and 244)
overlapReads(t) == SiteIds(t)

shiftReads(c, ind) == {ind}

(***************************************************************************)
(* The program with elements: the same calls on circuit 1, with initial    *)
(* amplitudes, gates and operator lists drawn from small sets.  last also  *)
(* records the argument of the call, the initial amplitudes the circuit    *)
(* was constructed with and the number of apply and normalize calls made   *)
(* on it since.  Two programs are run: SpecG, gates on two and three       *)
(* sites followed by at most a few SVDs, and SpecW, walks of the cursor    *)
(* with at most a few gates on the way.                                    *)
(***************************************************************************)
\* SpecG: number of SVDs and of apply and normalize calls of a run
MaxGateSvd == 1
MaxGates == 2
\* SpecW: number of SVDs and of apply calls of a run
MaxWalkSvd == 4
MaxWalkGates == 1

GateTopologies == {Pair2, Chain3}
WalkTopologies == {Chain3, YTree4}

\* init_qbits: every site |0>; site 0 at (3/5, 4/5) and the rest |0>;
\* site 0 at (3/5, 4/5), site 1 at (4/5, 3i/5) and the rest |0>
InitNames == {"zero", "ctl", "sup"}
GateInitNames == {"zero", "ctl"}

init_qbitsOf(q, t) ==
    [i \in SiteIds(t) |->
        IF q # "zero" /\ i = 0 THEN << <<3, 0, 5>>, <<4, 0, 5>> >>
        ELSE IF q = "sup" /\ i = 1 THEN << <<4, 0, 5>>, <<0, 3, 5>> >>
        ELSE <<COne, CZero>>]

\* the arguments of apply: gates on the cursor pair
GateNames == {"X,Id", "proj_0,Id"}
WalkGateNames == {"proj_0,Id", "CNOT"}

GateOf(c, g) ==
    LET s1 == c.s[c.cursor.first]
        s2 == c.s[c.cursor.second]
    IN  CASE g = "X,Id" -> ContractV(X(s1), Id(s2))
          [] g = "proj_0,Id" -> ContractV(proj_0(s1), Id(s2))
          [] g = "CNOT" -> CNOT(s1, s2)

\* the operator lists of overlap: Id everywhere; Z on site 0; Z on sites 0, 1
OpNames == {"Id", "Z,Id", "Z,Z"}

OpList(c, t, o) ==
    [i \in SiteIds(t) |->
        IF (o = "Z,Id" /\ i = 0) \/ (o = "Z,Z" /\ i <= 1) THEN Z(c.s[i])
        ELSE Id(c.s[i])]

\* the sites handed to shift_to: the neighbours of the cursor sites
NeighborArgs(c, t) ==
    (NeighborSites(t, c.cursor.first) \cup NeighborSites(t, c.cursor.second))
      \ CursorSites(c)

CallV(op, k, arg, init, calls) ==
    [op |-> op, k |-> k, k2 |-> 0, arg |-> arg, init |-> init, calls |-> calls]

NoOverlapV == NoOverlap @@ [z |-> CZero]

InitV(topologies) ==
    /\ topology \in topologies
    /\ circ = [k \in Circuits |-> NoCircuit]
    /\ nsvd = 0
    /\ halted = FALSE
    /\ last = CallV("none", 0, "", "", 0)
    /\ ov = NoOverlapV
    /\ inContract = TRUE

\* QCircuit c(topology, init_qbits)
ConstructV(k, q) ==
    /\ ~halted
    /\ ~circ[k].built
    /\ ConstructorAsserts(topology)
    /\ circ' = [circ EXCEPT ![k] =
                  QCircuitV(topology, k, init_qbitsOf(q, topology), <<>>)]
    /\ last' = CallV("QCircuit", k, q, q, 0)
    /\ ov' = NoOverlapV
    /\ UNCHANGED <<topology, nsvd, halted, inContract>>

\* circ[k].decomposePsi(), the cursor across a link
DecomposePsiV(k, maxsvd) ==
    /\ ~halted
    /\ circ[k].built
    /\ nsvd < maxsvd
    /\ CursorIsEdge(circ[k], topology)
    /\ svdInModel(circ[k], svdByU(circ[k], topology, nsvd))
    /\ circ' = [circ EXCEPT ![k] =
                  decomposePsiV(circ[k], topology, cursorLink(circ[k], topology), nsvd)]
    /\ nsvd' = nsvd + 1
    /\ last' = CallV("decomposePsi", k, "", last.init, last.calls)
    /\ ov' = NoOverlapV
    /\ UNCHANGED <<topology, halted, inContract>>

\* circ[k].shift_to(ind)
ShiftToIndV(k, ind, maxsvd) ==
    /\ ~halted
    /\ circ[k].built
    /\ nsvd < maxsvd
    /\ IF shiftAsserts(circ[k], topology, ind)
       THEN /\ shiftInModel(circ[k], topology, ind, nsvd)
            /\ circ' = [circ EXCEPT ![k] = shift_toV(circ[k], topology, ind, nsvd)]
            /\ nsvd' = nsvd + 1
            /\ UNCHANGED halted
       ELSE /\ halted' = TRUE
            /\ UNCHANGED <<circ, nsvd>>
    /\ inContract' = (inContract /\ shiftPrecondition(circ[k], topology, ind))
    /\ last' = CallV("shift_to", k, ind, last.init, last.calls)
    /\ ov' = NoOverlapV
    /\ UNCHANGED topology

ShiftToV(k, maxsvd) ==
    /\ circ[k].built
    /\ \E ind \in NeighborArgs(circ[k], topology) : ShiftToIndV(k, ind, maxsvd)

\* circ[k].apply(op), op the gate named g on the cursor pair
ApplyGateV(k, g, maxgates) ==
    /\ ~halted
    /\ circ[k].built
    /\ last.calls < maxgates
    /\ LET op == GateOf(circ[k], g)
       IN  IF applyAsserts(circ[k], op.inds)
           THEN /\ circ' = [circ EXCEPT ![k] = applyV(circ[k], op)]
                /\ UNCHANGED halted
           ELSE /\ halted' = TRUE
                /\ UNCHANGED circ
    /\ last' = CallV("apply", k, g, last.init, last.calls + 1)
    /\ ov' = NoOverlapV
    /\ UNCHANGED <<topology, nsvd, inContract>>

\* circ[k].normalize()
NormalizeV(k, maxgates) ==
    /\ ~halted
    /\ circ[k].built
    /\ last.calls < maxgates
    /\ normalizeInModel(circ[k])
    /\ circ' = [circ EXCEPT ![k] = normalizeV(circ[k])]
    /\ last' = CallV("normalize", k, "", last.init, last.calls + 1)
    /\ ov' = NoOverlapV
    /\ UNCHANGED <<topology, nsvd, halted, inContract>>

\* overlap(circ[k], op, circ[k]) with op the operator list named o;
\* ret_t.cplx() fails on a tensor that has an index left.  The two indices
\* the svds make live in the parameters of overlap and go with them when it
\* returns, so their numbers are free again for the caller's next svd.
\* overlap leaves the caller's circuits as they were, so a second overlap in
\* a row computes what it would have computed in place of the first.
OverlapOpV(k, o) ==
    /\ ~halted
    /\ circ[k].built
    /\ last.op # "overlap"
    /\ CursorIsEdge(circ[k], topology)
    /\ svdInModel(circ[k], svdByU(circ[k], topology, nsvd))
    /\ ov' = [called |-> TRUE] @@
              overlapV(circ[k], OpList(circ[k], topology, o), circ[k],
                       topology, nsvd)
    /\ halted' = (ov'.ret # {})
    /\ circ' = callerAfterOverlap(circ, k, k, ov'.c1, ov'.c2)
    /\ last' = CallV("overlap", k, o, last.init, last.calls)
    /\ UNCHANGED <<topology, nsvd, inContract>>

InitG == InitV(GateTopologies)

NextG ==
    \/ \E k \in Driven, q \in GateInitNames : ConstructV(k, q)
    \/ \E k \in Driven : DecomposePsiV(k, MaxGateSvd)
    \/ \E k \in Driven : ShiftToV(k, MaxGateSvd)
    \/ \E k \in Driven, g \in GateNames : ApplyGateV(k, g, MaxGates)
    \/ \E k \in Driven : NormalizeV(k, MaxGates)
    \/ \E k \in Driven, o \in OpNames : OverlapOpV(k, o)

SpecG == InitG /\ [][NextG]_vars

InitW == InitV(WalkTopologies)

NextW ==
    \/ \E k \in Driven, q \in InitNames : ConstructV(k, q)
    \/ \E k \in Driven : ShiftToV(k, MaxWalkSvd)
    \/ \E k \in Driven, g \in WalkGateNames : ApplyGateV(k, g, MaxWalkGates)
    \/ \E k \in Driven : OverlapOpV(k, "Id")

SpecW == InitW /\ [][NextW]_vars

(***************************************************************************)
(* C12.  The table of the single-site gates, entries <<row, column,        *)
(* value>>, and a gate tensor read as such a table.                        *)
(***************************************************************************)
GateTable ==
    [g \in {"Id", "X", "Y", "Z", "proj_0", "proj_1", "proj_0_to_1", "proj_1_to_0"} |->
        CASE g = "Id" -> {<<1, 1, COne>>, <<2, 2, COne>>}
          [] g = "X" -> {<<2, 1, COne>>, <<1, 2, COne>>}
          [] g = "Y" -> {<<2, 1, CI>>, <<1, 2, CMinusI>>}
          [] g = "Z" -> {<<1, 1, COne>>, <<2, 2, CNeg(COne)>>}
          [] g = "proj_0" -> {<<1, 1, COne>>}
          [] g = "proj_1" -> {<<2, 2, COne>>}
          [] g = "proj_0_to_1" -> {<<2, 1, COne>>}
          [] g = "proj_1_to_0" -> {<<1, 2, COne>>}]

SingleSiteGate(g, s1) ==
    CASE g = "Id" -> Id(s1)
      [] g = "X" -> X(s1)
      [] g = "Y" -> Y(s1)
      [] g = "Z" -> Z(s1)
      [] g = "proj_0" -> proj_0(s1)
      [] g = "proj_1" -> proj_1(s1)
      [] g = "proj_0_to_1" -> proj_0_to_1(s1)
      [] g = "proj_1_to_0" -> proj_1_to_0(s1)

\* the nonzero elements of G with the value of rowIdx as the row and the
\* value of colIdx as the column
ReadAs(G, rowIdx, colIdx) ==
    {<<x[rowIdx], x[colIdx], G.el[x]>> : x \in DOMAIN G.el}

\* every single-site gate on every site index matches the table, the row
\* being the value of prime(s) when rowIsPrimed and the value of s otherwise
GatesMatchTable(rowIsPrimed) ==
    \A k \in Circuits : circ[k].built =>
        \A i \in DOMAIN circ[k].s : \A g \in DOMAIN GateTable :
            LET s1 == circ[k].s[i]
                G == SingleSiteGate(g, s1)
                rowIdx == IF rowIsPrimed THEN prime(s1) ELSE s1
                colIdx == IF rowIsPrimed THEN s1 ELSE prime(s1)
            IN  /\ G.inds = {s1, prime(s1)}
                /\ ReadAs(G, rowIdx, colIdx) = GateTable[g]

\* C12 (as the code has it): for every single-site constructor G and every
\* site index s of a circuit, G(s) is a tensor on {s, prime(s)} whose
\* nonzero elements, read with row = value of s and column = value of
\* prime(s), are exactly those of the table.
C12_GateTableOrientation ==
    GatesMatchTable(FALSE)

\* C12 as worded: the same with row = value of prime(s), column = value of s
C12_GateTableAsWorded ==
    GatesMatchTable(TRUE)

\* a circuit is built and Y, proj_0_to_1 and proj_1_to_0 of its site index
\* s[0] hold +i, 1 and 1 where the code sets them
C12_Witness ==
    /\ circ[1].built
    /\ LET s0 == circ[1].s[0]
       IN  /\ Y(s0).el[At(s0, 2, 1)] = CI
           /\ Y(s0).el[At(s0, 1, 2)] = CMinusI
           /\ DOMAIN proj_0_to_1(s0).el = {At(s0, 2, 1)}
           /\ DOMAIN proj_1_to_0(s0).el = {At(s0, 1, 2)}

(***************************************************************************)
(* C13.  apply(X(s[first]) * Id(s[second])) twice in a row.                *)
(***************************************************************************)
XTwice(c) ==
    LET once == applyV(c, GateOf(c, "X,Id"))
    IN  applyV(once, GateOf(once, "X,Id"))

\* C13: for every state a circuit can be in, apply(X(s[first]) *
\* Id(s[second])) passes its asserts both times, and after the two calls
\* Psi has the index set and the element values it had before them; the
\* site tensors, the indices and the cursor are untouched.
C13_XInvolution ==
    \A k \in Circuits : (circ[k].built /\ ~halted) =>
        LET c == circ[k]
            once == applyV(c, GateOf(c, "X,Id"))
        IN  /\ applyAsserts(c, GateOf(c, "X,Id").inds)
            /\ applyAsserts(once, GateOf(once, "X,Id").inds)
            /\ XTwice(c).Psi = c.Psi
            /\ XTwice(c).val.Psi = c.val.Psi
            /\ XTwice(c).val.M = c.val.M
            /\ XTwice(c).M = c.M
            /\ XTwice(c).cursor = c.cursor

\* the program has applied the gate twice in a row to a constructed state
\* that one application changes: Psi is again what the constructor made,
\* and is not what one X makes of it
C13_Witness ==
    /\ ~halted
    /\ last.op = "apply" /\ last.arg = "X,Id" /\ last.calls = 2 /\ nsvd = 0
    /\ last.init = "ctl"
    /\ LET fresh == QCircuitV(topology, 1, init_qbitsOf("ctl", topology), <<>>)
       IN  /\ circ[1].val.Psi = fresh.val.Psi
           /\ circ[1].Psi = fresh.Psi
           /\ applyV(fresh, GateOf(fresh, "X,Id")).val.Psi # fresh.val.Psi

(***************************************************************************)
(* C14.  Two sites, X on site 0 of |00>, then <Z Id> and <Z Z>.            *)
(***************************************************************************)
\* Psi of c is |10>: the one element 1 at s[0] = 2, s[1] = 1
IsKet10(c) ==
    /\ c.Psi = {c.s[0], c.s[1]}
    /\ c.val.Psi = ((c.s[0] :> 2) @@ (c.s[1] :> 1)) :> COne

\* circuit 1 is the two-site circuit built from [(1,0),(1,0)] on which
\* apply(X(s[0]) * Id(s[1])) was the one call that changed it
AfterXOn00 ==
    /\ topology = Pair2 /\ circ[1].built /\ ~halted
    /\ last.init = "zero" /\ last.calls = 1 /\ nsvd = 0
    /\ circ[1].val.Psi # QCircuitV(Pair2, 1, init_qbitsOf("zero", Pair2), <<>>).val.Psi

\* the scenario with zz the value of overlap(c, [Z(s[0]), Z(s[1])], c)
TwoSiteX(zz) ==
    /\ (AfterXOn00 /\ last.op = "apply" /\ last.arg = "X,Id") => IsKet10(circ[1])
    /\ (topology = Pair2 /\ circ[1].built /\ IsKet10(circ[1]) /\ last.op = "overlap") =>
           /\ ~halted /\ ov.ret = {}
           /\ last.arg = "Z,Id" => ov.z = CNeg(COne)
           /\ last.arg = "Z,Z" => ov.z = zz
           /\ last.arg = "Id" => ov.z = COne

\* C14 (as the code computes it): on the two-site topology with initial
\* amplitudes [(1,0),(1,0)], after apply(X(s[0]) * Id(s[1])) the state is
\* |10>, and overlap of that circuit with itself returns -1 for
\* [Z(s[0]), Id(s[1])] and -1 for [Z(s[0]), Z(s[1])] (and 1 for [Id, Id]).
C14_TwoSiteX == TwoSiteX(CNeg(COne))

\* C14 as worded: overlap returns +1 for [Z(s[0]), Z(s[1])]
C14_TwoSiteXAsWorded == TwoSiteX(COne)

\* the overlap with [Z(s[0]), Z(s[1])] has been taken right after the X
C14_Witness ==
    /\ AfterXOn00 /\ IsKet10(circ[1])
    /\ last.op = "overlap" /\ last.arg = "Z,Z" /\ ov.called
    /\ ov.z = <<-1, 0, 1>>

(***************************************************************************)
(* C16.  shift_to(a); shift_to(b); then back: shift_to to the site the     *)
(* second shift dropped, then to the site the first shift dropped.         *)
(***************************************************************************)
\* the cursor site that shift_to(ind) drops
droppedBy(c, t, ind) ==
    IF shiftFlag(c, t, ind) = 1 THEN c.cursor.second ELSE c.cursor.first

\* shift_to(ind) passes its asserts and meets its documented precondition
ValidShift(c, t, ind) == shiftAsserts(c, t, ind) /\ shiftPrecondition(c, t, ind)

\* the pairs <<a, b>> of a valid walk from c: shift_to(a), then shift_to(b)
WalksFrom(c, t, k) ==
    {w \in SiteIds(t) \X SiteIds(t) :
        /\ ValidShift(c, t, w[1])
        /\ ValidShift(shift_to(c, t, w[1], k), t, w[2])}

\* the circuit after each of the four shifts of the walk <<a, b>> and back
WalkStates(c, t, w, k) ==
    LET c1 == shift_to(c, t, w[1], k)
        c2 == shift_to(c1, t, w[2], k + 1)
        c3 == shift_to(c2, t, droppedBy(c1, t, w[2]), k + 2)
        c4 == shift_to(c3, t, droppedBy(c, t, w[1]), k + 3)
    IN  <<c1, c2, c3, c4>>

\* both shifts back are valid, the cursor is again the ordered pair it was
\* and the index sets of Psi and of the site tensors are as C3 and C4 say
WalkReturns(c, t, w, k) ==
    LET st == WalkStates(c, t, w, k)
    IN  /\ ValidShift(st[2], t, droppedBy(st[1], t, w[2]))
        /\ ValidShift(st[3], t, droppedBy(c, t, w[1]))
        /\ st[4].cursor = c.cursor
        /\ PsiInv(st[4], t)
        /\ FactoredSiteInv(st[4], t)

\* C16 (cursor and index sets): from every state a constructed circuit can
\* be in on a tree, every valid walk shift_to(a); shift_to(b) can be walked
\* back by valid shifts, which return the cursor to the ordered pair it was
\* with the index-set invariants of Psi and of the off-cursor M[i] holding.
C16_WalkReversal ==
    \A k \in Built : ~halted =>
        \A w \in WalksFrom(circ[k], topology, nsvd) :
            WalkReturns(circ[k], topology, w, nsvd)

\* the same on the topologies that meet the constructor's precondition
C16_OnAdjacentStart ==
    Adjacent(topology, 0, 1) => C16_WalkReversal

\* the wave function circuit c represents: Psi contracted with the site
\* tensors of the sites in js, here all the sites off the cursor
RECURSIVE ContractSites(_, _, _)
ContractSites(c, T, js) ==
    IF js = {} THEN T
    ELSE LET j == CHOOSE i \in js : \A i2 \in js : i <= i2
         IN  ContractSites(c, ContractV(T, Mref(c, j)), js \ {j})

Represented(c, t) == ContractSites(c, Psiref(c), OffCursor(c, t))

\* the four shifts of the walk w from c with elements: [ok, end], ok when
\* the model computes the svd of each shift, end the circuit after the last
WalkV(c, t, w, k) ==
    LET no == [ok |-> FALSE, end |-> c]
        d1 == droppedBy(c, t, w[1])
    IN  IF ~shiftInModel(c, t, w[1], k) THEN no
        ELSE LET c1 == shift_toV(c, t, w[1], k)
                 d2 == droppedBy(c1, t, w[2])
             IN  IF ~shiftInModel(c1, t, w[2], k + 1) THEN no
                 ELSE LET c2 == shift_toV(c1, t, w[2], k + 1)
                      IN  IF ~shiftInModel(c2, t, d2, k + 2) THEN no
                          ELSE LET c3 == shift_toV(c2, t, d2, k + 2)
                               IN  IF ~shiftInModel(c3, t, d1, k + 3) THEN no
                                   ELSE [ok |-> TRUE,
                                         end |-> shift_toV(c3, t, d1, k + 3)]

\* the wave function after the walk, compared with the one before it,
\* divided by norm(Psi) when rescaled.  An overlap leaves the circuit as it was in the state before,
\* where the walks from it are examined.
WalkKeepsState(rescaled) ==
    \A k \in Built : (~halted /\ last.op # "overlap") =>
        \A w \in WalksFrom(circ[k], topology, nsvd) :
            LET r == WalkV(circ[k], topology, w, nsvd)
            IN  r.ok =>
                  /\ WalkReturns(circ[k], topology, w, nsvd)
                  /\ r.end.cursor = circ[k].cursor
                  /\ Represented(r.end, topology)
                       = ScaleV(Represented(circ[k], topology),
                                IF rescaled
                                THEN CInv(Root(Norm2(Psiref(circ[k]))))
                                ELSE COne)

CursorProduct(c) == ContractV(Mref(c, c.cursor.first), Mref(c, c.cursor.second))

\* C19: in the state right after decomposePsi returns, Psi has the index
\* set and the element values of M[cursor.first] * M[cursor.second],
\* whatever Psi was before the call.
C19_DecomposeRecontracted ==
    (last.op = "decomposePsi" /\ ~halted) =>
        /\ CursorProduct(circ[last.k]).inds = circ[last.k].Psi
        /\ CursorProduct(circ[last.k]).el = circ[last.k].val.Psi

\* what the code leaves: Psi as it was before the call, and site tensors
\* whose contraction is Psi divided by norm(Psi)
C19_DecomposeNormalizes ==
    [][(last'.op = "decomposePsi" /\ ~halted') =>
          /\ circ'[last'.k].Psi = circ[last'.k].Psi
          /\ circ'[last'.k].val.Psi = circ[last'.k].val.Psi
          /\ CursorProduct(circ'[last'.k]).inds = circ[last'.k].Psi
          /\ CursorProduct(circ'[last'.k])
               = ScaleV(Psiref(circ[last'.k]),
                        CInv(Root(Norm2(Psiref(circ[last'.k])))))]_vars

\* decomposePsi has returned on a Psi of norm 3/5
C19_Unnormalized ==
    /\ last.op = "decomposePsi" /\ ~halted
    /\ Norm2(Psiref(circ[1])) = <<9, 0, 25>>
    /\ Norm2(CursorProduct(circ[1])) = COne

(***************************************************************************)
(* C17.  Shifts on a freshly constructed product state.  Every amplitude   *)
(* pair the constructor is given here has |alpha|^2 + |beta|^2 = 1.        *)
(***************************************************************************)
\* circuit 1 is built and only shift_to (and overlap, which leaves it as it
\* was) has been called on it since
OnlyShifted == circ[1].built /\ last.calls = 0

\* C17: after any sequence of valid shift_to calls on a freshly constructed
\* product state with normalized amplitude pairs, Psi and the wave function
\* the circuit represents have norm 1, and overlap(c, [Id(s[0]), ...,
\* Id(s[N-1])], c) returns 1.
C17_NormPreserved ==
    OnlyShifted =>
        /\ ~halted => /\ Norm2(Psiref(circ[1])) = COne
                      /\ Norm2(Represented(circ[1], topology)) = COne
        /\ (last.op = "overlap" /\ last.arg = "Id") =>
               ~halted /\ ov.ret = {} /\ ov.z = COne

\* the overlap has been taken after three shifts of the state with two
\* superposed sites
C17_Witness ==
    /\ OnlyShifted /\ ~halted /\ last.init = "sup" /\ nsvd = 3
    /\ last.op = "overlap" /\ last.arg = "Id" /\ ov.called
    /\ ov.z = <<1, 0, 1>>

(***************************************************************************)
(* C18.  CNOT on a freshly constructed product state, then a shift.        *)
(***************************************************************************)
\* circuit 1 is freshly constructed but for apply(CNOT(s[first],
\* s[second])), the call just made
FreshThenCNOT ==
    /\ circ[1].built /\ ~halted
    /\ last.op = "apply" /\ last.arg = "CNOT" /\ last.calls = 1 /\ nsvd = 0

\* the index sets of the svd that shift_to(ind) performs
shiftSvdInds(c, t, ind, k) ==
    IF shiftFlag(c, t, ind) = 1 THEN svdByV(c, t, k) ELSE svdByU(c, t, k)

\* the number of singular values of that svd that are not zero: the rank of
\* Psi as the matrix the svd factors, here of at most two rows
shiftRank(c, t, ind, k) ==
    LET r == shiftSvdInds(c, t, ind, k)
        m == Matrix(Psiref(c), r.U \ {commonIndex(r.U, r.S)},
                    r.V \ {commonIndex(r.S, r.V)})
    IN  IF DOMAIN m.el = {} THEN 0
        ELSE IF MinorsVanish(m, CHOOSE x \in DOMAIN m.el : TRUE) THEN 1
        ELSE 2

\* CNOT entangles the constructed sites 0 (control) and 1 (target): both
\* control amplitudes are not zero and the squares of the target amplitudes
\* differ
Entangling(q, t) ==
    LET ab == init_qbitsOf(q, t)
    IN  /\ ab[0][1] # CZero /\ ab[0][2] # CZero
        /\ CMul(ab[1][1], ab[1][1]) # CMul(ab[1][2], ab[1][2])

\* after the CNOT, the svd of every shift that can follow has nz singular
\* values that are not zero (2 always, or 2 only when the CNOT entangles); the shift the program makes yields an S with
\* that many entries and rebinds the old cursor link with dimension 2
BondAfterCNOT(always2) ==
    FreshThenCNOT =>
      LET nz == IF always2 \/ Entangling(last.init, topology) THEN 2 ELSE 1 IN
        /\ \A ind \in NeighborArgs(circ[1], topology) :
               shiftRank(circ[1], topology, ind, nsvd) = nz
        /\ (last'.op = "shift_to" /\ ~halted') =>
               LET f == svdOfPsi(circ[1],
                                 shiftSvdInds(circ[1], topology, last'.arg, nsvd))
               IN  /\ Cardinality(DOMAIN f.S.el) = nz
                   /\ circ'[1].dim[cursorLink(circ[1], topology)] = 2

\* C18 (as the code has it): on a topology with at least 3 sites, after
\* apply(CNOT(s[first], s[second])) on a freshly constructed product state,
\* the S of the next shift_to's svd has exactly 2 nonzero entries when the
\* CNOT entangles the two sites and exactly 1 when it does not (as on
\* |0...0>); the rebound slot of the old cursor link has dimension 2 in
\* both cases.
C18_BondAfterCNOT ==
    [][BondAfterCNOT(FALSE)]_vars

\* C18 as worded: S has exactly 2 nonzero entries
C18_BondGrowthAsWorded ==
    [][BondAfterCNOT(TRUE)]_vars

\* the shift has been made right after the CNOT on the state with site 0
\* superposed: the tensor of the site it dropped uses both values of the
\* rebound link index, whose dimension is 2
C18_Witness ==
    /\ circ[1].built /\ ~halted
    /\ last.op = "shift_to" /\ last.calls = 1 /\ nsvd = 1 /\ last.init = "ctl"
    /\ LET e == linkIndOf(topology, 0, 1)
           j == CHOOSE i \in {0, 1} : i \notin CursorSites(circ[1])
       IN  /\ circ[1].dim[e] = 2
           /\ {x[circ[1].a[e]] : x \in DOMAIN circ[1].val.M[j]} = {1, 2}

(***************************************************************************)
(* C20.  Stale site tensors.  c.stale holds the sites j whose M[j] has not *)
(* been rewritten since j came under the cursor or since apply or          *)
(* normalize changed Psi.  An operation reads no stale tensor when the     *)
(* site tensors it reads are not in c.stale, and when it does the same     *)
(* to a circuit whose stale tensors hold other elements.                   *)
(***************************************************************************)
\* c with every stale site tensor emptied of its elements
Scrambled(c) ==
    [c EXCEPT !.val.M = [j \in DOMAIN c.val.M |->
                           IF j \in c.stale THEN <<>> ELSE c.val.M[j]]]

\* circuits x and y agree on everything but the elements of stale tensors
SameButStale(x, y) ==
    /\ x.cursor = y.cursor /\ x.stale = y.stale
    /\ x.Psi = y.Psi /\ x.val.Psi = y.val.Psi
    /\ x.M = y.M /\ x.a = y.a /\ x.dim = y.dim
    /\ \A j \in DOMAIN x.val.M \ x.stale : x.val.M[j] = y.val.M[j]

NoStaleReadStep ==
    LET k == last'.k
        c == circ[k]
    IN  /\ (last'.op = "shift_to" /\ ~halted') =>
               /\ shiftReads(c, last'.arg) \cap c.stale = {}
               /\ SameButStale(shift_toV(Scrambled(c), topology, last'.arg, nsvd),
                               circ'[k])
        /\ last'.op = "decomposePsi" =>
               /\ circ'[k].stale = {}
               /\ SameButStale(decomposePsiV(Scrambled(c), topology,
                                             cursorLink(c, topology), nsvd),
                               circ'[k])
        /\ (last'.op = "apply" /\ ~halted') =>
               SameButStale(applyV(Scrambled(c), GateOf(c, last'.arg)), circ'[k])
        /\ last'.op = "normalize" =>
               SameButStale(normalizeV(Scrambled(c)), circ'[k])
        /\ last'.op = "overlap" =>
               /\ overlapReads(topology) \cap ov'.c1.stale = {}
               /\ overlapReads(topology) \cap ov'.c2.stale = {}
               /\ overlapV(Scrambled(c), OpList(c, topology, last'.arg),
                           Scrambled(c), topology, nsvd).z = ov'.z
        /\ \A j \in Built : circ[j].stale \subseteq CursorSites(circ[j])

\* C20: no operation reads a stale site tensor.  shift_to(ind) reads M[ind]
\* of a site that is not stale and nothing else of M; apply, normalize and
\* decomposePsi read no site tensor; overlap reads M[0..N-1] of its copies
\* when decomposePsi has left none of them stale; and only sites under the
\* cursor are ever stale.
C20_NoStaleRead == [][NoStaleReadStep]_vars

\* overlap has been called on a circuit whose two cursor tensors are stale
\* after a shift and a gate, and has read its decomposed copies
C20_Witness ==
    /\ ~halted /\ last.op = "overlap" /\ ov.called
    /\ nsvd = 1 /\ last.calls >= 1
    /\ circ[1].stale = CursorSites(circ[1])
    /\ circ[1].cursor # [first |-> 0, second |-> 1]
    /\ ov.c1.stale = {} /\ ov.c2.stale = {}

====
